---- MODULE Spec2Model ----
(***************************************************************************)
(* Revised simplex solver of src/Simplexnailson.py as a state machine.     *)
(*                                                                         *)
(* One behaviour is one call solver(c, A_eq, b_eq).  The inputs are fixed  *)
(* by the initial state; Setup is lines 19-31 and every later step is one  *)
(* pass through the body of `while True` (lines 33-84), split by the way   *)
(* the pass ends (raise, return Infeasible / Optimal / Unbounded, pivot).  *)
(*                                                                         *)
(* The numbers of solver are float64 values and the model computes them    *)
(* bit for bit: every sum, difference, product and quotient is rounded to  *)
(* the nearest float64, np.linalg.inv is LAPACK's LU factorisation with    *)
(* partial pivoting followed by the triangular solves, and np.dot adds the *)
(* products from left to right.  Variable indices and list positions keep  *)
(* Python's 0-based values; TLA+ sequences are 1-based, so position p of a *)
(* Python list is element p + 1 of the sequence.                           *)
(***************************************************************************)
EXTENDS Integers, Sequences, FiniteSets, TLC

VARIABLES c, A_eq, b_eq, pc, B_indices, N_indices, iteration, status,
          solution, objective_value,
          entering_index, entering_var, leaving_index, leaving_var

vars == <<c, A_eq, b_eq, pc, B_indices, N_indices, iteration, status,
          solution, objective_value,
          entering_index, entering_var, leaving_index, leaving_var>>

\* Python's None, for locals not yet assigned and result fields not returned.
None == "None"

\* The sequence s with its elements evaluated once (a tuple): the same value.
Vec(s) == s \o <<>>

-----------------------------------------------------------------------------
(* Natural numbers of any size, for the mantissas of float64 values and    *)
(* the intermediate results of their arithmetic: a natural is the sequence *)
(* of its digits in base 2^15, least significant first, without leading    *)
(* zero digits (0 is <<>>).                                                *)

LimbBits == 15
Base == 2^LimbBits

Limb(a, k) == IF k <= Len(a) THEN a[k] ELSE 0

Zeros(q) == Vec([k \in 1..q |-> 0])

RECURSIVE NTrim(_)
NTrim(a) ==
    IF a # <<>> /\ a[Len(a)] = 0 THEN NTrim(SubSeq(a, 1, Len(a) - 1)) ELSE a

\* The natural i < 2^30.
NFromInt(i) ==
    IF i = 0 THEN <<>>
    ELSE IF i < Base THEN <<i>>
    ELSE <<i % Base, i \div Base>>

RECURSIVE NCmpAt(_, _, _)
NCmpAt(a, b, k) ==
    IF k = 0 THEN 0
    ELSE IF a[k] < b[k] THEN -1
    ELSE IF a[k] > b[k] THEN 1
    ELSE NCmpAt(a, b, k - 1)

\* -1, 0 or 1 as a < b, a = b or a > b.
NCmp(a, b) ==
    IF Len(a) < Len(b) THEN -1
    ELSE IF Len(a) > Len(b) THEN 1
    ELSE NCmpAt(a, b, Len(a))

RECURSIVE NAddAt(_, _, _, _)
RECURSIVE NAddDigit(_, _, _, _)
NAddAt(a, b, k, carry) ==
    IF k > Len(a) /\ k > Len(b)
    THEN (IF carry = 0 THEN <<>> ELSE <<carry>>)
    ELSE NAddDigit(a, b, k, Limb(a, k) + Limb(b, k) + carry)
NAddDigit(a, b, k, s) == <<s % Base>> \o NAddAt(a, b, k + 1, s \div Base)

NAdd(a, b) == NAddAt(a, b, 1, 0)

RECURSIVE NSubAt(_, _, _, _)
RECURSIVE NSubDigit(_, _, _, _)
NSubAt(a, b, k, borrow) ==
    IF k > Len(a) THEN <<>>
    ELSE NSubDigit(a, b, k, a[k] - Limb(b, k) - borrow)
NSubDigit(a, b, k, d) ==
    IF d < 0 THEN <<d + Base>> \o NSubAt(a, b, k + 1, 1)
    ELSE <<d>> \o NSubAt(a, b, k + 1, 0)

\* a - b for a >= b.
NSub(a, b) == NTrim(NSubAt(a, b, 1, 0))

RECURSIVE NMulLimbAt(_, _, _, _)
RECURSIVE NMulLimbDigit(_, _, _, _)
NMulLimbAt(a, x, k, carry) ==
    IF k > Len(a)
    THEN (IF carry = 0 THEN <<>> ELSE <<carry>>)
    ELSE NMulLimbDigit(a, x, k, a[k] * x + carry)
NMulLimbDigit(a, x, k, p) == <<p % Base>> \o NMulLimbAt(a, x, k + 1, p \div Base)

\* a * x for one digit x.
NMulLimb(a, x) == IF x = 0 THEN <<>> ELSE NMulLimbAt(a, x, 1, 0)

RECURSIVE NMulAt(_, _, _)
NMulAt(a, b, j) ==
    IF j > Len(b) THEN <<>>
    ELSE IF b[j] = 0 THEN NMulAt(a, b, j + 1)
    ELSE NAdd(Zeros(j - 1) \o NMulLimb(a, b[j]), NMulAt(a, b, j + 1))

NMul(a, b) == NMulAt(a, b, 1)

\* a * 2^k.
NShl(a, k) ==
    IF a = <<>> THEN <<>>
    ELSE Zeros(k \div LimbBits) \o NMulLimb(a, 2^(k % LimbBits))

RECURSIVE NQuoLimbAt(_, _, _, _)
NQuoLimbAt(a, x, k, r) ==
    IF k = 0 THEN <<>>
    ELSE NQuoLimbAt(a, x, k - 1, (r * Base + a[k]) % x) \o <<(r * Base + a[k]) \div x>>

\* a \div x for one digit x > 0.
NQuoLimb(a, x) == NTrim(NQuoLimbAt(a, x, Len(a), 0))

\* a \div 2^k.
NShr(a, k) ==
    IF k \div LimbBits >= Len(a) THEN <<>>
    ELSE NQuoLimb(SubSeq(a, k \div LimbBits + 1, Len(a)), 2^(k % LimbBits))

\* a % 2^k.
NLow(a, k) ==
    IF k \div LimbBits >= Len(a) THEN a
    ELSE NTrim(SubSeq(a, 1, k \div LimbBits)
               \o <<a[k \div LimbBits + 1] % 2^(k % LimbBits)>>)

RECURSIVE IntBitLen(_)
IntBitLen(x) == IF x = 0 THEN 0 ELSE 1 + IntBitLen(x \div 2)

\* Number of binary digits of a.
NBitLen(a) ==
    IF a = <<>> THEN 0
    ELSE LimbBits * (Len(a) - 1) + IntBitLen(a[Len(a)])

RECURSIVE IntTrailingZeros(_)
IntTrailingZeros(x) == IF x % 2 = 1 THEN 0 ELSE 1 + IntTrailingZeros(x \div 2)

\* Number of trailing zero binary digits of a > 0, from digit k on.
RECURSIVE NTrailingZeros(_, _)
NTrailingZeros(a, k) ==
    IF a[k] = 0 THEN LimbBits + NTrailingZeros(a, k + 1)
    ELSE IntTrailingZeros(a[k])

\* Long division in base 2^15 by a divisor d whose leading digit is at least
\* 2^14: the quotient digit of rp \div d (rp < d * 2^15) is at most 2 below
\* the quotient of the leading digits.
RECURSIVE NQuoCorrect(_, _, _)
NQuoCorrect(rp, d, q) ==
    IF NCmp(NMulLimb(d, q), rp) > 0 THEN NQuoCorrect(rp, d, q - 1) ELSE q

NQuoEstimate(rp, d) ==
    IF (Limb(rp, Len(d) + 1) * Base + Limb(rp, Len(d))) \div d[Len(d)] >= Base
    THEN Base - 1
    ELSE (Limb(rp, Len(d) + 1) * Base + Limb(rp, Len(d))) \div d[Len(d)]

NQuoDigit(rp, d) ==
    IF NCmp(rp, d) < 0 THEN 0 ELSE NQuoCorrect(rp, d, NQuoEstimate(rp, d))

RECURSIVE NDivModAt(_, _, _, _, _)
RECURSIVE NDivModStep(_, _, _, _, _, _)
NDivModAt(a, d, k, r, q) ==
    IF k = 0 THEN <<NTrim(q), r>>
    ELSE NDivModStep(a, d, k, q, NTrim(<<a[k]>> \o r), NQuoDigit(NTrim(<<a[k]>> \o r), d))
NDivModStep(a, d, k, q, rp, x) ==
    NDivModAt(a, d, k - 1, NSub(rp, NMulLimb(d, x)), <<x>> \o q)

\* <<a \div d, a % d>>.
NDivMod(a, d) == NDivModAt(a, d, Len(a), <<>>, <<>>)

-----------------------------------------------------------------------------
(* float64 (numpy's dtype=float): a finite value is <<s, m, e>> standing    *)
(* for s * m * 2^e with sign s in {1, -1}, mantissa m an odd natural below  *)
(* 2^53 (in the digits above) and exponent e; 0.0 is <<1, <<>>, 0>> and    *)
(* -0.0 is <<-1, <<>>, 0>>.  Every operation gives the float64 nearest to   *)
(* the exact result, ties to the even mantissa (IEEE 754 round-to-nearest). *)
(* Exponents are not bounded: no value of the model leaves the range of    *)
(* normal float64 values.                                                   *)

Precision == 53

FZero == <<1, <<>>, 0>>
FOne == <<1, <<1>>, 0>>
\* np.inf as the first power of two above every float64.
Inf == <<1, <<1>>, 1024>>

IsZero(x) == x[2] = <<>>

FNormShift(s, m, e, tz) == <<s, NShr(m, tz), e + tz>>

\* s * m * 2^e with the trailing zeros of m moved to the exponent.
FNorm(s, m, e) ==
    IF m = <<>> THEN <<s, <<>>, 0>>
    ELSE IF m[1] % 2 = 1 THEN <<s, m, e>>
    ELSE FNormShift(s, m, e, NTrailingZeros(m, 1))

\* q the leading 53 digits, cut the comparison of the digits cut with one half.
FRoundCut(s, q, cut, e) ==
    FNorm(s, IF cut > 0 \/ (cut = 0 /\ q[1] % 2 = 1) THEN NAdd(q, <<1>>) ELSE q, e)

FRoundLen(s, m, e, len) ==
    IF len <= Precision THEN FNorm(s, m, e)
    ELSE FRoundCut(s, NShr(m, len - Precision),
                   NCmp(NLow(m, len - Precision), NShl(<<1>>, len - Precision - 1)),
                   e + len - Precision)

\* The float64 nearest to s * m * 2^e.
FRound(s, m, e) == FRoundLen(s, m, e, NBitLen(m))

\* float(i) for an integer |i| < 2^30.
FromInt(i) == FNorm(IF i < 0 THEN -1 ELSE 1, NFromInt(IF i < 0 THEN -i ELSE i), 0)

FNeg(x) == <<-x[1], x[2], x[3]>>

\* Comparison of |x| and |y| for non-zero x and y.
FMagCmpTop(x, y, tx, ty) ==
    IF tx < ty THEN -1
    ELSE IF tx > ty THEN 1
    ELSE IF x[3] >= y[3] THEN NCmp(NShl(x[2], x[3] - y[3]), y[2])
    ELSE NCmp(x[2], NShl(y[2], y[3] - x[3]))

FMagCmp(x, y) ==
    IF x[2] = y[2] /\ x[3] = y[3] THEN 0
    ELSE FMagCmpTop(x, y, NBitLen(x[2]) + x[3], NBitLen(y[2]) + y[3])

\* -1, 0 or 1 as x < y, x == y or x > y (0.0 == -0.0).
FCmp(x, y) ==
    IF IsZero(x) THEN (IF IsZero(y) THEN 0 ELSE -y[1])
    ELSE IF IsZero(y) THEN x[1]
    ELSE IF x[1] # y[1] THEN x[1]
    ELSE x[1] * FMagCmp(x, y)

FLt(x, y) == FCmp(x, y) < 0
FLe(x, y) == FCmp(x, y) <= 0
FEq(x, y) == FCmp(x, y) = 0

\* The product of two one-digit mantissas is odd and below 2^30: no rounding.
FMul(x, y) ==
    IF IsZero(x) \/ IsZero(y) THEN <<x[1] * y[1], <<>>, 0>>
    ELSE IF Len(x[2]) = 1 /\ Len(y[2]) = 1
    THEN <<x[1] * y[1], NFromInt(x[2][1] * y[2][1]), x[3] + y[3]>>
    ELSE FRound(x[1] * y[1], NMul(x[2], y[2]), x[3] + y[3])

\* a and b are |x| and |y| over the common exponent e.
FAddAligned(x, y, a, b, e, cmp) ==
    IF x[1] = y[1] THEN FRound(x[1], NAdd(a, b), e)
    ELSE IF cmp = 0 THEN FZero
    ELSE IF cmp > 0 THEN FRound(x[1], NSub(a, b), e)
    ELSE FRound(y[1], NSub(b, a), e)

FAddMin(x, y, e) ==
    FAddAligned(x, y, NShl(x[2], x[3] - e), NShl(y[2], y[3] - e), e,
                NCmp(NShl(x[2], x[3] - e), NShl(y[2], y[3] - e)))

\* tx and ty are the positions of the leading digits of x and y; an operand
\* more than 56 digits below the other does not change the nearest float64.
FAddTop(x, y, tx, ty) ==
    IF tx - ty > Precision + 3 THEN x
    ELSE IF ty - tx > Precision + 3 THEN y
    ELSE FAddMin(x, y, IF x[3] < y[3] THEN x[3] ELSE y[3])

\* The sum i * 2^e for an integer |i| < 2^30: no rounding.
FAddSmall(i, e) ==
    IF i = 0 THEN FZero
    ELSE FNorm(IF i < 0 THEN -1 ELSE 1, NFromInt(IF i < 0 THEN -i ELSE i), e)

FAdd(x, y) ==
    IF IsZero(x) THEN (IF IsZero(y) THEN <<(IF x[1] = -1 /\ y[1] = -1 THEN -1 ELSE 1), <<>>, 0>> ELSE y)
    ELSE IF IsZero(y) THEN x
    ELSE IF Len(x[2]) = 1 /\ Len(y[2]) = 1 /\ x[3] - y[3] < LimbBits /\ y[3] - x[3] < LimbBits
    THEN (IF x[3] < y[3]
          THEN FAddSmall(x[1] * x[2][1] + y[1] * y[2][1] * 2^(y[3] - x[3]), x[3])
          ELSE FAddSmall(x[1] * x[2][1] * 2^(x[3] - y[3]) + y[1] * y[2][1], y[3]))
    ELSE FAddTop(x, y, NBitLen(x[2]) + x[3], NBitLen(y[2]) + y[3])

FSub(x, y) == FAdd(x, FNeg(y))

\* qr is <<quotient, remainder>> of |x| * 2^k by |y| * 2^j; a remainder makes
\* one more digit of the quotient, which keeps the rounding right.
FDivQuo(s, qr, e) ==
    IF qr[2] = <<>> THEN FRound(s, qr[1], e)
    ELSE FRound(s, NAdd(NShl(qr[1], 1), <<1>>), e - 1)

FDivShift(x, y, j, k) ==
    FDivQuo(x[1] * y[1], NDivMod(NShl(x[2], k), NShl(y[2], j)), x[3] - y[3] - k + j)

FDivNorm(x, y, j) ==
    FDivShift(x, y, j, NBitLen(y[2]) + j + Precision + 3 - NBitLen(x[2]))

\* x / y for y # 0 (no division of solver has a zero divisor); a power of
\* two and an exact divisor of a one-digit mantissa divide without rounding.
FDiv(x, y) ==
    IF IsZero(x) THEN <<x[1] * y[1], <<>>, 0>>
    ELSE IF y[2] = <<1>> THEN <<x[1] * y[1], x[2], x[3] - y[3]>>
    ELSE IF Len(x[2]) = 1 /\ Len(y[2]) = 1 /\ x[2][1] % y[2][1] = 0
    THEN <<x[1] * y[1], <<x[2][1] \div y[2][1]>>, x[3] - y[3]>>
    ELSE FDivNorm(x, y, (LimbBits - (NBitLen(y[2]) % LimbBits)) % LimbBits)

-----------------------------------------------------------------------------
(* numpy on float64 vectors and matrices (sequences of rows).              *)

RECURSIVE DotAt(_, _, _, _)
DotAt(u, v, k, acc) ==
    IF k > Len(u) THEN acc
    ELSE DotAt(u, v, k + 1, FAdd(acc, FMul(u[k], v[k])))

\* np.dot of two vectors of equal length: the products added from left to
\* right, starting from 0.0.
dot(u, v) == DotAt(u, v, 1, FZero)

\* np.array(list, dtype=float) for a vector and for a matrix of integers.
ToFloatVec(v) == Vec([k \in 1..Len(v) |-> FromInt(v[k])])
ToFloatMat(M) == Vec([i \in 1..Len(M) |-> ToFloatVec(M[i])])

\* A[:, idx]: the columns of M at the 0-based indices idx, in that order.
Cols(M, idx) ==
    Vec([i \in 1..Len(M) |-> Vec([k \in 1..Len(idx) |-> M[i][idx[k] + 1]])])

\* A[:, j]: column j (0-based) of M as a vector.
Col(M, j) == Vec([i \in 1..Len(M) |-> M[i][j + 1]])

\* np.array(v)[idx]
Take(v, idx) == Vec([k \in 1..Len(idx) |-> v[idx[k] + 1]])

\* np.dot(R, v): matrix times vector.
MatVec(R, v) == Vec([i \in 1..Len(R) |-> dot(R[i], v)])

\* np.dot(u, R): row vector times a matrix with ncols columns.
VecMat(u, R, ncols) ==
    Vec([k \in 1..ncols |-> dot(u, Vec([i \in 1..Len(R) |-> R[i][k]]))])

\* range(lo, hi) as a sequence (empty when hi <= lo).
Range(lo, hi) == Vec([k \in 1..(IF hi > lo THEN hi - lo ELSE 0) |-> lo + k - 1])

IsSquare(M) == Len(M) = Len(M[1])

\* |x| < |y|
FAbsLt(x, y) == FCmp(<<1, x[2], x[3]>>, <<1, y[2], y[3]>>) < 0

\* The pivot row of column j (idamax): the first of the rows j.. with the
\* largest absolute value in column j.
PivotRow(M, j) ==
    CHOOSE p \in j..Len(M) :
        /\ \A i \in j..Len(M) : ~FAbsLt(M[p][j], M[i][j])
        /\ \A i \in j..(p - 1) : FAbsLt(M[i][j], M[p][j])

Swap(s, j, p) == [s EXCEPT ![j] = s[p], ![p] = s[j]]

\* Row `row` below the pivot row prow of column j, with multiplier l: l is
\* stored in column j and l * prow is taken from the columns after j.
EliminateRow(row, prow, j, l) ==
    Vec([k \in 1..Len(row) |->
        IF k < j THEN row[k]
        ELSE IF k = j THEN l
        ELSE FSub(row[k], FMul(l, prow[k]))])

\* LAPACK dgetrf (dgetf2) from column j on: partial pivoting, the column
\* below the pivot scaled by the reciprocal r of the pivot, rank-1 update of
\* the rest.  info is the column of the first pivot that is exactly 0.0 (0
\* for none), lu holds L below and U on and above the diagonal, piv[i] is the
\* row of the input that stands at row i.
RECURSIVE dgetrf(_, _, _)
dgetrfScale(M, piv, j, r) ==
    dgetrf(Vec([i \in 1..Len(M) |->
               IF i <= j THEN M[i]
               ELSE EliminateRow(M[i], M[j], j, FMul(M[i][j], r))]),
           piv, j + 1)
dgetrfPivot(M, piv, j, p) ==
    IF IsZero(M[p][j]) THEN [info |-> j, lu |-> M, piv |-> piv]
    ELSE dgetrfScale(Swap(M, j, p), Swap(piv, j, p), j, FDiv(FOne, M[p][j]))
dgetrf(M, piv, j) ==
    IF j > Len(M) THEN [info |-> 0, lu |-> M, piv |-> piv]
    ELSE dgetrfPivot(M, piv, j, PivotRow(M, j))

\* The LU factorisation of the square matrix M.
Factor(M) == dgetrf(M, Range(1, Len(M) + 1), 1)

\* Forward substitution with the unit lower triangle of lu, column by column
\* (dtrsm): a zero component of b leaves the others as they are.
RECURSIVE ForwardAt(_, _, _)
ForwardAt(lu, b, k) ==
    IF k > Len(b) THEN b
    ELSE IF IsZero(b[k]) THEN ForwardAt(lu, b, k + 1)
    ELSE ForwardAt(lu,
                   Vec([i \in 1..Len(b) |->
                       IF i > k THEN FSub(b[i], FMul(b[k], lu[i][k])) ELSE b[i]]),
                   k + 1)

\* Back substitution with the upper triangle of lu, column by column (dtrsm).
RECURSIVE BackwardAt(_, _, _)
BackwardStep(lu, b, k, x) ==
    BackwardAt(lu,
               Vec([i \in 1..Len(b) |->
                   IF i < k THEN FSub(b[i], FMul(x, lu[i][k]))
                   ELSE IF i = k THEN x
                   ELSE b[i]]),
               k - 1)
BackwardAt(lu, b, k) ==
    IF k = 0 THEN b
    ELSE IF IsZero(b[k]) THEN BackwardAt(lu, b, k - 1)
    ELSE BackwardStep(lu, b, k, FDiv(b[k], lu[k][k]))

\* Column j of the inverse (dgetrs on column j of the identity): the rows of
\* the unit vector exchanged as the pivots were, then the two substitutions.
InverseColumn(f, j) ==
    BackwardAt(f.lu,
               ForwardAt(f.lu,
                         Vec([i \in 1..Len(f.piv) |->
                             IF f.piv[i] = j THEN FOne ELSE FZero]),
                         1),
               Len(f.piv))

Transpose(columns) ==
    Vec([i \in 1..Len(columns) |-> Vec([k \in 1..Len(columns) |-> columns[k][i]])])

\* np.linalg.inv raises LinAlgError for a non-square matrix and for a matrix
\* whose factorisation meets a pivot that is exactly 0.0; a singular matrix
\* whose pivots round to non-zero values is inverted like any other.
InvRaises(M) == ~IsSquare(M) \/ Factor(M).info # 0

\* np.linalg.inv(M) when it does not raise (dgesv on the identity).
InverseOf(f) == Transpose(Vec([j \in 1..Len(f.piv) |-> InverseColumn(f, j)]))
inv(M) == InverseOf(Factor(M))

\* np.argmin returning the last occurrence of the minimum instead of the first.
argmin_last(v) ==
    (CHOOSE p \in 1..Len(v) :
        /\ \A q \in 1..Len(v) : FLe(v[p], v[q])
        /\ \A q \in (p + 1)..Len(v) : ~FEq(v[q], v[p])) - 1

\* np.argmax: 0-based position of the first occurrence of the maximum.
argmax(v) ==
    (CHOOSE p \in 1..Len(v) :
        /\ \A q \in 1..Len(v) : FLe(v[q], v[p])
        /\ \A q \in 1..(p - 1) : ~FEq(v[q], v[p])) - 1

\* np.argmin over a non-empty vector: 0-based position of the first
\* occurrence of the minimum.
argmin(v) ==
    (CHOOSE p \in 1..Len(v) :
        /\ \A q \in 1..Len(v) : FLe(v[p], v[q])
        /\ \A q \in 1..(p - 1) : ~FEq(v[q], v[p])) - 1
-----------------------------------------------------------------------------
(* Bounds of the model.                                                    *)

\* Passes of the loop a behaviour may make (the code has no cap).
MaxIter == 8

-----------------------------------------------------------------------------
(* solver: the body of `while True` (lines 36-78), one helper per          *)
(* statement.                                                              *)

\* Line 40 looking at the first component of x_B only.
AnyNegativeFirst(xB) == FLt(xB[1], FZero)

\* any(x < 0 for x in x_B) (line 40).
AnyNegative(xB) == \E i \in 1..Len(xB) : FLt(xB[i], FZero)

\* u - v for two vectors of equal length.
VecSub(u, v) == Vec([k \in 1..Len(u) |-> FSub(u[k], v[k])])

\* c_N - np.dot(y, N) (line 47).
ReducedCosts(cN, yy, NN) ==
    VecSub(ToFloatVec(cN), VecMat(yy, NN, Len(cN)))

\* Line 50 with any(...) in place of all(...).
AnyNonNegative(rc) == \E k \in 1..Len(rc) : FLe(FZero, rc[k])

\* all(reduced_costs >= 0) (line 50).
AllNonNegative(rc) == \A k \in 1..Len(rc) : FLe(FZero, rc[k])

\* all(direction <= 0) (line 69).
AllNonPositive(d) == \A i \in 1..Len(d) : FLe(d[i], FZero)

\* Lines 73-76 without the test direction[i] > 0: every non-zero entry of the
\* direction gives a ratio.
RatiosNoSignTest(xB, d) ==
    Vec([i \in 1..Len(d) |->
        IF ~IsZero(d[i]) THEN FDiv(xB[i], d[i]) ELSE Inf])

\* The list comprehension of lines 73-76.
Ratios(xB, d) ==
    Vec([i \in 1..Len(d) |->
        IF FLt(FZero, d[i]) THEN FDiv(xB[i], d[i]) ELSE Inf])

\* x = np.zeros(num_vars); x[B_indices] = x_B (lines 51-52).
Assemble(n, Bi, xB) ==
    Vec([j \in 1..n |->
        IF \E i \in 1..Len(Bi) : Bi[i] = j - 1
        THEN xB[CHOOSE i \in 1..Len(Bi) : Bi[i] = j - 1]
        ELSE FZero])

\* What a pass hands to the rest of solver: the way it ends and the locals it
\* has assigned by then (None for a local the pass does not reach).
Locals(ends, xB, rc, xx, obj, ei, ev, d, rr, li, lv) ==
    [ends            |-> ends,
     x_B             |-> xB,
     reduced_costs   |-> rc,
     x               |-> xx,
     objective_value |-> obj,
     entering_index  |-> ei,
     entering_var    |-> ev,
     direction       |-> d,
     ratios          |-> rr,
     leaving_index   |-> li,
     leaving_var     |-> lv]

\* Lines 77-78: the leaving variable; the pass ends in the exchange.
PassLeaving(Bi, xB, rc, ei, ev, d, rr, li) ==
    Locals("Pivot", xB, rc, None, None, ei, ev, d, rr, li, Bi[li + 1])

\* Line 77: the position of the smallest ratio.
PassRatios(Bi, xB, rc, ei, ev, d, rr) ==
    PassLeaving(Bi, xB, rc, ei, ev, d, rr, argmin(rr))

\* Lines 68-76: the unboundedness test and the ratios.
PassDirection(Bi, xB, rc, ei, ev, d) ==
    IF AllNonPositive(d)
    THEN Locals("Unbounded", xB, rc, None, None, ei, ev, d, None, None, None)
    ELSE PassRatios(Bi, xB, rc, ei, ev, d, Ratios(xB, d))

\* Lines 62-66: the entering variable and the direction.
PassEntering(AA, Bi, Ni, B_inv, xB, rc, ei) ==
    LET ev == Ni[ei + 1]
    IN  PassDirection(Bi, xB, rc, ei, ev, MatVec(B_inv, Col(AA, ev)))

\* Lines 50-62 with np.argmax in place of np.argmin at line 62.
PassOptimalArgmax(cc, AA, Bi, Ni, B_inv, xB, rc, xx) ==
    IF AllNonNegative(rc)
    THEN Locals("Optimal", xB, rc, xx, dot(ToFloatVec(cc), xx), None, None, None, None, None, None)
    ELSE PassEntering(AA, Bi, Ni, B_inv, xB, rc, argmax(rc))

\* Lines 50-59: the optimality test and the result.
PassOptimal(cc, AA, Bi, Ni, B_inv, xB, rc, xx) ==
    IF AllNonNegative(rc)
    THEN Locals("Optimal", xB, rc, xx, dot(ToFloatVec(cc), xx), None, None, None, None, None, None)
    ELSE PassEntering(AA, Bi, Ni, B_inv, xB, rc, argmin(rc))

\* Lines 44-47: the reduced costs.
PassCosts(cc, AA, Bi, Ni, B_inv, xB, yy) ==
    PassOptimal(cc, AA, Bi, Ni, B_inv, xB,
                ReducedCosts(Take(cc, Ni), yy, Cols(AA, Ni)),
                Assemble(Len(cc), Bi, xB))

\* Lines 40-46: the infeasibility test and the dual prices y.
PassFeasible(cc, AA, Bi, Ni, B_inv, xB) ==
    IF AnyNegative(xB)
    THEN Locals("Infeasible", xB, None, None, None, None, None, None, None, None, None)
    ELSE PassCosts(cc, AA, Bi, Ni, B_inv, xB,
                   VecMat(ToFloatVec(Take(cc, Bi)), B_inv, Len(Bi)))

\* Line 37: the basic solution x_B.
PassInverse(cc, AA, bb, Bi, Ni, B_inv) ==
    PassFeasible(cc, AA, Bi, Ni, B_inv, MatVec(B_inv, ToFloatVec(bb)))

\* Line 36: np.linalg.inv(B) for the basis matrix B = A[:, B_indices].
PassBasis(cc, AA, bb, Bi, Ni, B) ==
    IF InvRaises(B)
    THEN Locals("LinAlgError", None, None, None, None, None, None, None, None, None, None)
    ELSE PassInverse(cc, AA, bb, Bi, Ni, inv(B))

\* Lines 27 and 83: B = A[:, B_indices] for the float64 matrix A.
PassMatrix(cc, AA, bb, Bi, Ni) == PassBasis(cc, AA, bb, Bi, Ni, Cols(AA, Bi))

\* One pass through lines 36-78 for the basis Bi and the nonbasic list Ni, on
\* A = np.array(A_eq, dtype=float) (line 26).
Pass(cc, AA, bb, Bi, Ni) == PassMatrix(cc, ToFloatMat(AA), bb, Bi, Ni)

-----------------------------------------------------------------------------
(* The call solver(c, A_eq, b_eq).                                         *)

num_vars == Len(c)
num_constraints == Len(b_eq)

\* The pass the loop makes next from the current state.
pass == Pass(c, A_eq, b_eq, B_indices, N_indices)

\* Lines 19-31.  B_indices and N_indices are assigned first; the fancy index
\* A[:, B_indices] of line 27 raises IndexError, which ends the call, when a
\* basis index is past the last column of A.
Setup ==
    /\ pc = "start"
    /\ B_indices' = Range(num_vars - num_constraints, num_vars)
    /\ N_indices' = Range(0, num_vars - num_constraints)
    /\ IF \E j \in (num_vars - num_constraints)..(num_vars - 1) : j >= Len(A_eq[1])
       THEN /\ status' = "IndexError"
            /\ pc' = "raised"
       ELSE /\ status' = status
            /\ pc' = "loop"
    /\ iteration' = 0
    /\ UNCHANGED <<c, A_eq, b_eq, solution, objective_value,
                   entering_index, entering_var, leaving_index, leaving_var>>

\* Line 81: B_indices[leaving_index] = entering_var.
NewBasis(Bi, p) == [Bi EXCEPT ![p.leaving_index + 1] = p.entering_var]

\* Line 82 left out: the nonbasic list keeps the entering variable.
NewNonbasicStale(Ni, p) == Ni

\* Line 82 writing at the leaving position instead of the entering one.
NewNonbasicWrongSlot(Ni, p) == [Ni EXCEPT ![p.leaving_index + 1] = p.leaving_var]

\* Line 82: N_indices[entering_index] = leaving_var.
NewNonbasic(Ni, p) == [Ni EXCEPT ![p.entering_index + 1] = p.leaving_var]

\* Lines 33-84 given the pass p: np.linalg.inv raises, or the pass returns a
\* result, or it exchanges the entering and the leaving variable (lines 81-84)
\* and the loop goes on.
IterateWith(p) ==
    /\ iteration' = iteration + 1
    /\ pc' = CASE p.ends = "LinAlgError" -> "raised"
               [] p.ends = "Pivot"       -> "loop"
               [] OTHER                  -> "returned"
    /\ status' = IF p.ends = "Pivot" THEN status ELSE p.ends
    /\ solution' = IF p.ends = "Optimal" THEN p.x ELSE solution
    /\ objective_value' =
           IF p.ends = "Optimal" THEN p.objective_value ELSE objective_value
    /\ entering_index' =
           IF p.ends \in {"Unbounded", "Pivot"} THEN p.entering_index
           ELSE entering_index
    /\ entering_var' =
           IF p.ends \in {"Unbounded", "Pivot"} THEN p.entering_var
           ELSE entering_var
    /\ leaving_index' = IF p.ends = "Pivot" THEN p.leaving_index ELSE leaving_index
    /\ leaving_var' = IF p.ends = "Pivot" THEN p.leaving_var ELSE leaving_var
    /\ B_indices' = IF p.ends = "Pivot" THEN NewBasis(B_indices, p) ELSE B_indices
    /\ N_indices' = IF p.ends = "Pivot" THEN NewNonbasic(N_indices, p) ELSE N_indices
    /\ UNCHANGED <<c, A_eq, b_eq>>

\* One pass through the body of `while True`.
Iterate ==
    /\ pc = "loop"
    /\ iteration < MaxIter
    /\ IterateWith(pass)

-----------------------------------------------------------------------------
(* prepara_input and the module-level example (lines 87-129).              *)

\* prepara_input returning c as it was given, without the slack costs.
prepara_input_same_c(A0, c0, bounds0) ==
    LET m == Len(A0)
    IN  [A_eq   |-> Vec([i \in 1..m |-> A0[i] \o [k \in 1..m |-> IF k = i THEN 1 ELSE 0]]),
         c      |-> c0,
         bounds |-> bounds0 \o [k \in 1..m |-> <<FZero, Inf>>]]

\* prepara_input(A_eq, c, bounds): A_eq with the identity appended on the
\* right, c with one zero per constraint appended, bounds with (0.0, inf)
\* per constraint appended.
prepara_input(A0, c0, bounds0) ==
    LET m == Len(A0)
    IN  [A_eq   |-> Vec([i \in 1..m |-> A0[i] \o [k \in 1..m |-> IF k = i THEN 1 ELSE 0]]),
         c      |-> c0 \o [k \in 1..m |-> 0],
         bounds |-> bounds0 \o [k \in 1..m |-> <<FZero, Inf>>]]

\* bounds = [(0, np.inf)] * n (line 123).
DefaultBounds(n) == [k \in 1..n |-> <<FZero, Inf>>]

\* The example of lines 116-122.
ExampleA == <<<<1, 2, -3>>, <<-2, 0, 3>>, <<1, 1, 0>>>>
ExampleB == <<10, 15, 8>>
ExampleC == <<-2, -3, -4>>

-----------------------------------------------------------------------------
(* Initial states: the inputs of one call.                                 *)

\* State at the call, before line 19.
Called(cc, AA, bb) ==
    /\ c = cc
    /\ A_eq = AA
    /\ b_eq = bb
    /\ pc = "start"
    /\ B_indices = <<>>
    /\ N_indices = <<>>
    /\ iteration = 0
    /\ status = None
    /\ solution = None
    /\ objective_value = None
    /\ entering_index = None
    /\ entering_var = None
    /\ leaving_index = None
    /\ leaving_var = None

Matrices(rows, cols, S) == [1..rows -> [1..cols -> S]]

Abs(i) == IF i < 0 THEN -i ELSE i

RECURSIVE ISum(_)
ISum(s) == IF s = <<>> THEN 0 ELSE Head(s) + ISum(Tail(s))

\* Sum of the absolute values of the entries of M.
Weight(M) == ISum(Vec([i \in 1..Len(M) |-> ISum(Vec([k \in 1..Len(M[i]) |-> Abs(M[i][k])]))]))

\* Largest total weight and largest right-hand side of the generated problems.
MaxWeight == 4
MaxRhs == 1

CoefSet == {-1, 0, 1, 2}
CostSet == {-1, 0}

\* Calls as the module makes them (lines 126-129): solver on the output of
\* prepara_input, for 2 constraints in 3 variables and b >= 0.
InitPrepared ==
    \E A0 \in Matrices(2, 3, CoefSet), c0 \in [1..3 -> CostSet],
       bb \in [1..2 -> 0..MaxRhs] :
        /\ Weight(A0) <= MaxWeight
        /\ LET p == prepara_input(A0, c0, DefaultBounds(3))
           IN  Called(p.c, p.A_eq, bb)

\* The module's own call (lines 116-129), and the same problem with the
\* right-hand side [-5, 1, 1].
InitExample ==
    \E bb \in {ExampleB, <<-5, 1, 1>>} :
        LET p == prepara_input(ExampleA, ExampleC, DefaultBounds(3))
        IN  Called(p.c, p.A_eq, bb)

\* Direct calls of solver on a 2 x 3 matrix that need not end in the identity,
\* with c of 2 to 4 entries and b_eq of 1 to 3 entries of either sign
\* (len(b_eq) <= len(c), so that range(num_vars - num_constraints, num_vars)
\* holds no negative index).
InitRaw ==
    \E AA \in Matrices(2, 3, {0, 1}), n \in 2..4, m \in 1..3 :
        /\ m <= n
        /\ \E cc \in [1..n -> CostSet], bb \in [1..m -> {-1, 1}] : Called(cc, AA, bb)

\* Calls in which float64 rounding decides the course: a 1 x 2 problem whose
\* reduced cost rounds below zero, two singular bases whose factorisation has
\* no zero pivot, and two calls on prepara_input's output (3 constraints in 2
\* variables, 2 constraints in 3 variables) whose third pass meets a rounded
\* value where the exact one is 0.
InitRounded ==
    \/ Called(<<-1, -1>>, <<<<49, 49>>>>, <<1>>)
    \/ Called(<<0, 0>>, <<<<49, 49>>, <<1, 1>>>>, <<1, 1>>)
    \/ Called(<<0, 0, 0>>, <<<<1, 2, 3>>, <<4, 5, 6>>, <<7, 8, 9>>>>, <<1, 1, 1>>)
    \/ LET p == prepara_input(<<<<-1, 3>>, <<3, 3>>, <<3, 1>>>>, <<-5, -2>>, DefaultBounds(2))
       IN  Called(p.c, p.A_eq, <<3, 3, 1>>)
    \/ LET p == prepara_input(<<<<1, 3, -1>>, <<1, -2, -1>>>>, <<-2, -1, -2>>, DefaultBounds(3))
       IN  Called(p.c, p.A_eq, <<3, 1>>)

Init == InitPrepared \/ InitExample \/ InitRaw \/ InitRounded

Next ==
    \/ Setup
    \/ Iterate

Spec == Init /\ [][Next]_vars

-----------------------------------------------------------------------------
(* Exact arithmetic, for the properties: the rationals <<num, den>> in     *)
(* lowest terms with den > 0, and linear algebra over the integer inputs.  *)

RECURSIVE Gcd(_, _)
Gcd(i, j) == IF j = 0 THEN i ELSE Gcd(j, i % j)

\* n/d (d # 0) divided through by g > 0, with a positive denominator.
Reduce(n, d, g) ==
    IF d < 0 THEN <<(-n) \div g, (-d) \div g>> ELSE <<n \div g, d \div g>>

\* The rational n/d (d # 0) in lowest terms with a positive denominator.
Rat(n, d) == Reduce(n, d, Gcd(Abs(n), Abs(d)))

RInt(i) == <<i, 1>>
RZero == <<0, 1>>

RAdd(p, q) == Rat(p[1] * q[2] + q[1] * p[2], p[2] * q[2])
RSub(p, q) == Rat(p[1] * q[2] - q[1] * p[2], p[2] * q[2])
RMul(p, q) == Rat(p[1] * q[1], p[2] * q[2])
RLt(p, q) == p[1] * q[2] < q[1] * p[2]
RLe(p, q) == p = q \/ RLt(p, q)

RECURSIVE RSum(_)
RSum(s) == IF s = <<>> THEN RZero ELSE RAdd(Head(s), RSum(Tail(s)))

RDot(u, v) == RSum(Vec([k \in 1..Len(u) |-> RMul(u[k], v[k])]))

RVec(v) == Vec([k \in 1..Len(v) |-> RInt(v[k])])

RMatVec(R, v) == Vec([i \in 1..Len(R) |-> RDot(R[i], v)])

RVecMat(u, R, ncols) ==
    Vec([k \in 1..ncols |-> RDot(u, Vec([i \in 1..Len(R) |-> R[i][k]]))])

\* The natural a < 2^30 as an integer.
NToInt(a) ==
    IF a = <<>> THEN 0
    ELSE IF Len(a) = 1 THEN a[1]
    ELSE a[1] + Base * a[2]

\* The rational a float64 value is, for a mantissa below 2^30.
ToRat(x) ==
    IF x[3] >= 0 THEN Rat(x[1] * NToInt(x[2]) * 2^x[3], 1)
    ELSE Rat(x[1] * NToInt(x[2]), 2^(-x[3]))

ToRatVec(v) == Vec([k \in 1..Len(v) |-> ToRat(v[k])])

\* M without row i and column j (1-based).
Minor(M, i, j) ==
    Vec([r \in 1..(Len(M) - 1) |->
        Vec([k \in 1..(Len(M[1]) - 1) |->
            M[IF r < i THEN r ELSE r + 1][IF k < j THEN k ELSE k + 1]])])

Sign(k) == IF k % 2 = 0 THEN 1 ELSE -1

\* Determinant of a square integer matrix (expansion along the first row
\* from 3 x 3 on).
RECURSIVE Det(_)
Det(M) ==
    IF Len(M) = 1 THEN M[1][1]
    ELSE IF Len(M) = 2 THEN M[1][1] * M[2][2] - M[1][2] * M[2][1]
    ELSE ISum(Vec([j \in 1..Len(M) |-> Sign(1 + j) * M[1][j] * Det(Minor(M, 1, j))]))

Cofactor(M, i, j) ==
    IF Len(M) = 1 THEN 1 ELSE Sign(i + j) * Det(Minor(M, i, j))

\* The adjugate of M over d.
AdjugateOver(M, d) ==
    Vec([i \in 1..Len(M) |-> Vec([j \in 1..Len(M) |-> Rat(Cofactor(M, j, i), d)])])

\* The inverse of an invertible integer matrix: adjugate over determinant.
ExactInverse(M) == AdjugateOver(M, Det(M))

RECURSIVE IsPowerOfTwo(_)
IsPowerOfTwo(i) == i = 1 \/ (i > 1 /\ i % 2 = 0 /\ IsPowerOfTwo(i \div 2))

\* The increasing lists of k of the numbers 1..n.
IncreasingLists(k, n) ==
    {q \in [1..k -> 1..n] : \A i \in 1..(k - 1) : q[i] < q[i + 1]}

SubMatrix(M, rows, cols) ==
    [i \in 1..Len(rows) |-> [k \in 1..Len(cols) |-> M[rows[i]][cols[k]]]]

DyadicDet(d) == d = 0 \/ IsPowerOfTwo(Abs(d))

DyadicMinors(M, rowLists, colLists) ==
    \A rows \in rowLists : \A cols \in colLists :
        DyadicDet(Det(SubMatrix(M, rows, cols)))

\* float64 arithmetic is exact in the call: every square submatrix of A has
\* determinant 0 or plus or minus a power of two.  Every pivot, multiplier
\* and entry of an inverse is then a quotient of two such determinants, so
\* every number solver computes is an integer over a power of two, which (at
\* the sizes of the model's inputs) float64 holds and computes without
\* rounding.
ExactArithmetic ==
    \A k \in 1..(IF Len(A_eq) < Len(A_eq[1]) THEN Len(A_eq) ELSE Len(A_eq[1])) :
        DyadicMinors(A_eq, IncreasingLists(k, Len(A_eq)), IncreasingLists(k, Len(A_eq[1])))

-----------------------------------------------------------------------------
(* Vocabulary of the properties.                                           *)

Done == pc \in {"returned", "raised"}

RangeOf(s) == {s[k] : k \in 1..Len(s)}

\* len(c) is the number of columns of A and len(b_eq) its number of rows.
ShapesConsistent == Len(c) = Len(A_eq[1]) /\ Len(b_eq) = Len(A_eq)

\* The trailing len(b_eq) columns of A are the identity: the form
\* prepara_input produces.
SlackForm ==
    /\ ShapesConsistent
    /\ \A i \in 1..Len(A_eq) : \A k \in 1..Len(A_eq) :
           A_eq[i][Len(c) - Len(A_eq) + k] = (IF i = k THEN 1 ELSE 0)

\* The current basis matrix is square with determinant 0.
BasisSingular ==
    /\ status # "IndexError"
    /\ pc # "start"
    /\ IsSquare(Cols(A_eq, B_indices))
    /\ Det(Cols(A_eq, B_indices)) = 0

-----------------------------------------------------------------------------
(* Properties.                                                             *)

\* C1: once B_indices and N_indices are set (at the start of every pass and
\* after every exchange), B_indices holds len(b_eq) distinct indices,
\* N_indices the other len(c) - len(b_eq), and together they are exactly
\* 0..len(c)-1 with no index in both.
C1_Partition ==
    pc # "start" =>
        /\ Len(B_indices) = num_constraints
        /\ Len(N_indices) = num_vars - num_constraints
        /\ Cardinality(RangeOf(B_indices)) = num_constraints
        /\ Cardinality(RangeOf(N_indices)) = num_vars - num_constraints
        /\ RangeOf(B_indices) \cap RangeOf(N_indices) = {}
        /\ RangeOf(B_indices) \cup RangeOf(N_indices) = 0..(num_vars - 1)

\* C1 witness: a pass starts after two exchanges have moved the basis away
\* from the trailing indices.
C1_Witness ==
    /\ pc = "loop"
    /\ iteration >= 2
    /\ B_indices # Range(num_vars - num_constraints, num_vars)
    /\ \E k \in 1..(Len(N_indices) - 1) : N_indices[k] > N_indices[k + 1]

\* C2 as claimed: a call (on inputs of consistent shapes) whose basis matrix
\* is singular (determinant 0) ends by returning status SingularBasis, without raising.
C2_SingularBasisReturned ==
    (ShapesConsistent /\ Done /\ BasisSingular) =>
        (pc = "returned" /\ status = "SingularBasis")

\* C3 as claimed: a call on inputs of inconsistent shapes is rejected with
\* InvalidDimension before the first pass, so it never returns the result of
\* a pass.
C3_InvalidDimensionFirst ==
    (~ShapesConsistent /\ pc = "returned") =>
        (status = "InvalidDimension" /\ iteration = 0)

\* The bases of A: the increasing lists of len(b_eq) column indices whose
\* columns form an invertible matrix.
Bases ==
    {q \in [1..Len(b_eq) -> 0..(Len(c) - 1)] :
        /\ \A i \in 1..(Len(b_eq) - 1) : q[i] < q[i + 1]
        /\ Det(Cols(A_eq, q)) # 0}

\* B^-1 b at the basis Bi.
BasicSolution(Bi) == RMatVec(ExactInverse(Cols(A_eq, Bi)), RVec(b_eq))

\* c_B B^-1 at the basis Bi.
DualPrices(Bi) == RVecMat(RVec(Take(c, Bi)), ExactInverse(Cols(A_eq, Bi)), Len(Bi))

\* The reduced cost of variable j under the dual prices yy: c_j - y A_j.
ReducedCostUnder(yy, j) == RSub(RInt(c[j + 1]), RDot(yy, RVec(Col(A_eq, j))))

NoNegativeReducedCost(yy, J) == \A j \in J : RLe(RZero, ReducedCostUnder(yy, j))

PositiveIfFeasible(xB) ==
    (\A i \in 1..Len(xB) : RLe(RZero, xB[i])) => (\A i \in 1..Len(xB) : RLt(RZero, xB[i]))

\* No basic feasible solution has a basic variable at zero.
NonDegenerate == \A Bi \in Bases : PositiveIfFeasible(BasicSolution(Bi))

\* The dual is feasible (some basis has no negative reduced cost), which for a
\* feasible problem is boundedness of the objective.
BoundedLP == \E Bi \in Bases : NoNegativeReducedCost(DualPrices(Bi), 0..(Len(c) - 1))

RhsNonNegative == \A i \in 1..Len(b_eq) : b_eq[i] >= 0

\* The returned solution satisfies A x = b and x >= 0, and no nonbasic
\* variable has a negative reduced cost at the final basis.
OptimalResult ==
    /\ pc = "returned"
    /\ status = "Optimal"
    /\ \A i \in 1..Len(A_eq) : RDot(RVec(A_eq[i]), ToRatVec(solution)) = RInt(b_eq[i])
    /\ \A j \in 1..Len(solution) : RLe(RZero, ToRat(solution[j]))
    /\ NoNegativeReducedCost(DualPrices(B_indices), RangeOf(N_indices))

\* A next pass is still to come.
Running == ~Done /\ iteration < MaxIter

\* C4: where float64 arithmetic is exact, a call on a feasible (b >= 0),
\* bounded, non-degenerate problem in slack form is never left without a next
\* pass before it ends, and ends by returning status Optimal with a solution
\* that satisfies A x = b and x >= 0 and no negative reduced cost at the final
\* basis.  (Written as: a call in slack form with b >= 0 has a next pass to
\* come or has returned such a result, unless the arithmetic is not exact or
\* the problem is degenerate or unbounded.)
C4_OptimalReached ==
    (SlackForm /\ RhsNonNegative) =>
        \/ Running
        \/ ~ExactArithmetic
        \/ OptimalResult
        \/ ~NonDegenerate
        \/ ~BoundedLP

\* C4 witness: such a call has returned Optimal after at least two exchanges.
C4_Witness ==
    /\ iteration >= 3
    /\ pc = "returned"
    /\ SlackForm /\ RhsNonNegative /\ ExactArithmetic
    /\ OptimalResult
    /\ NonDegenerate /\ BoundedLP

\* The call of lines 116-129: solver on prepara_input's output for the
\* example's A and c, with the example's b.
IsExampleCall ==
    /\ b_eq = ExampleB
    /\ Len(A_eq) = 3
    /\ \A i \in 1..3 : SubSeq(A_eq[i], 1, 3) = ExampleA[i]
    /\ SubSeq(c, 1, 3) = ExampleC

\* C5: the example call goes on for two passes and returns Optimal from the
\* third, never any other status.
C5_ExampleOptimal ==
    IsExampleCall =>
        IF iteration < 3
        THEN pc \in {"start", "loop"} /\ status = None
        ELSE pc = "returned" /\ status = "Optimal" /\ iteration = 3

\* C5 witness: the example call has returned Optimal, with the slack columns
\* appended to A and the zero costs to c.
C5_Witness ==
    /\ IsExampleCall
    /\ SlackForm
    /\ Len(c) = 6
    /\ pc = "returned"
    /\ status = "Optimal"

HasNegativeRhs == \E i \in 1..Len(b_eq) : b_eq[i] < 0

\* C6: a call in slack form whose b has a negative component returns
\* Infeasible from its first pass: no reduced cost is computed (no entering
\* variable is ever chosen) and no exchange is made.
C6_InfeasibleAtFirstPass ==
    (SlackForm /\ HasNegativeRhs) =>
        /\ IF iteration = 0
           THEN pc \in {"start", "loop"} /\ status = None
           ELSE pc = "returned" /\ status = "Infeasible" /\ iteration = 1
        /\ pc # "start" => B_indices = Range(num_vars - num_constraints, num_vars)
        /\ entering_index = None

\* C6 witness: the example's A with b = [-5, 1, 1] has returned Infeasible.
C6_Witness ==
    /\ SlackForm
    /\ b_eq = <<-5, 1, 1>>
    /\ \A i \in 1..3 : SubSeq(A_eq[i], 1, 3) = ExampleA[i]
    /\ status = "Infeasible"
    /\ iteration = 1

\* A step is an exchange when the loop goes on after it (lines 81-84 ran).
\* After one, the locals of the pass give back the lists it started from.
PrevBasis == [B_indices EXCEPT ![leaving_index + 1] = leaving_var]
PrevNonbasic == [N_indices EXCEPT ![entering_index + 1] = entering_var]
AfterExchange == pc = "loop" /\ iteration >= 1

\* ev is a variable of Ni with the smallest reduced cost, and among those
\* with that reduced cost it has the smallest variable index.
EntersSmallestTied(rc, Ni, ev) ==
    \E k \in 1..Len(Ni) :
        /\ Ni[k] = ev
        /\ \A q \in 1..Len(Ni) : FLe(rc[k], rc[q])
        /\ \A q \in 1..Len(Ni) : FEq(rc[q], rc[k]) => ev <= Ni[q]

\* The variable at position ei of Ni has the smallest reduced cost, which is
\* negative, and no earlier position of Ni has that reduced cost.
EntersFirstTied(rc, Ni, ei, ev) ==
    /\ Ni[ei + 1] = ev
    /\ FLt(rc[ei + 1], FZero)
    /\ \A q \in 1..Len(Ni) : FLe(rc[ei + 1], rc[q])
    /\ \A q \in 1..ei : ~FEq(rc[q], rc[ei + 1])

\* C7 as claimed: in every pass that goes on to an exchange, the entering
\* variable has the most negative reduced cost and is, among the nonbasic
\* variables tied for it, the one with the smallest variable index.
C7_SmallestIndexEnters ==
    [][(pc = "loop" /\ pc' = "loop") =>
           EntersSmallestTied(pass.reduced_costs, N_indices, entering_var')]_vars

\* C7 amended: in every pass that goes on to an exchange, the entering
\* variable has the most negative reduced cost and is, among the nonbasic
\* variables tied for it, the one at the first position of N_indices as the
\* earlier exchanges have left it.
C7_FirstPositionEnters ==
    [][(pc = "loop" /\ pc' = "loop") =>
           EntersFirstTied(pass.reduced_costs, N_indices, entering_index', entering_var')]_vars

\* Some variable tied with ev for the smallest reduced cost has a smaller
\* index than ev.
TieOutOfOrder(rc, Ni, ei, ev) ==
    \E q \in 1..Len(Ni) : FEq(rc[q], rc[ei + 1]) /\ Ni[q] < ev

\* C7 witness: an exchange has been made in which the entering variable was
\* tied with a nonbasic variable of smaller index standing later in N_indices.
C7_Witness ==
    /\ AfterExchange
    /\ TieOutOfOrder(Pass(c, A_eq, b_eq, PrevBasis, PrevNonbasic).reduced_costs,
                     PrevNonbasic, entering_index, entering_var)

NonNegativeVec(v) == \A i \in 1..Len(v) : FLe(FZero, v[i])

\* The pass that follows an exchange computes a basic solution x_B >= 0.
NextBasicSolutionFeasible(p) ==
    /\ p.ends \notin {"LinAlgError", "Infeasible"}
    /\ NonNegativeVec(p.x_B)

\* C8: Infeasible is returned from the first pass only, and the x_B the next
\* pass computes after an exchange is >= 0, unless float64 arithmetic is not
\* exact in the call.
C8_InfeasibleOnlyAtFirstPass ==
    \/ /\ status = "Infeasible" => iteration = 1
       /\ AfterExchange => NextBasicSolutionFeasible(pass)
    \/ ~ExactArithmetic

\* C8 witness: a pass starts after two exchanges, with a basic variable at 0
\* in the basic solution the second one produced.
C8_Witness ==
    /\ AfterExchange
    /\ iteration >= 2
    /\ ExactArithmetic
    /\ NextBasicSolutionFeasible(pass)
    /\ \E i \in 1..Len(B_indices) : IsZero(pass.x_B[i])

\* C9: an exchange writes the entering variable at the position of B_indices
\* that held the leaving variable, the leaving variable at the position of
\* N_indices that held the entering variable, and nothing else: every other
\* position of both lists and the inputs c, A_eq and b_eq are as before.
C9_ExchangeFrame ==
    [][(pc = "loop" /\ pc' = "loop") =>
           /\ \E i \in 1..Len(B_indices) : \E k \in 1..Len(N_indices) :
                  /\ B_indices[i] = leaving_var'
                  /\ N_indices[k] = entering_var'
                  /\ i = leaving_index' + 1
                  /\ k = entering_index' + 1
                  /\ B_indices' = [B_indices EXCEPT ![i] = N_indices[k]]
                  /\ N_indices' = [N_indices EXCEPT ![k] = B_indices[i]]
                  /\ B_indices'[i] # B_indices[i]
                  /\ N_indices'[k] # N_indices[k]
           /\ c' = c
           /\ A_eq' = A_eq
           /\ b_eq' = b_eq]_vars

\* C9 witness: an exchange has been made between different positions of the
\* two lists.
C9_Witness ==
    /\ AfterExchange
    /\ leaving_index # entering_index
    /\ B_indices[leaving_index + 1] = entering_var
    /\ N_indices[entering_index + 1] = leaving_var

\* c_B . x_B at the basis Bi.
ObjectiveAt(Bi) == RDot(RVec(Take(c, Bi)), BasicSolution(Bi))

\* From objective o1 to o2 by an exchange with smallest ratio theta and
\* reduced cost rce of the entering variable: o2 - o1 = rce * theta, o2 <= o1,
\* and o2 < o1 when theta > 0.
ObjectiveStep(o1, o2, theta, rce) ==
    /\ RSub(o2, o1) = RMul(rce, theta)
    /\ RLe(o2, o1)
    /\ RLt(RZero, theta) => RLt(o2, o1)

ExchangeStep(p, li, ei) ==
    ObjectiveStep(ObjectiveAt(B_indices), ObjectiveAt(B_indices'),
                  ToRat(p.ratios[li + 1]), ToRat(p.reduced_costs[ei + 1]))

\* C10: where float64 arithmetic is exact, every exchange changes the
\* objective c_B . x_B of the basic solution by (reduced cost of the entering
\* variable) * (smallest ratio), as the pass computed them, never increases
\* it, and decreases it when the smallest ratio is positive.
C10_ObjectiveNeverIncreases ==
    [][(pc = "loop" /\ pc' = "loop" /\ ExactArithmetic) =>
           ExchangeStep(pass, leaving_index', entering_index')]_vars

\* C10 witness: an exchange has lowered the objective.
C10_Witness ==
    /\ AfterExchange
    /\ ExactArithmetic
    /\ RLt(ObjectiveAt(B_indices), ObjectiveAt(PrevBasis))

====
